---- MODULE Spec2Model ----
(***************************************************************************)
(* await-github-file-change-cli: a command line tool that polls the etag   *)
(* of one file on GitHub once per second and exits when the etag changes.  *)
(*                                                                         *)
(* The repository holds two versions of the program text:                  *)
(*   src/index.js          parseGitHubUrl without the ref, getEtag that    *)
(*                         returns the etag header as received;            *)
(*   src/unnamed/part_000  parseGitHubUrl with the ref, getEtag that       *)
(*                         strips a leading W/ from the etag header.       *)
(* The variable impl says which of the two program texts runs.             *)
(*                                                                         *)
(* Strings are sequences of tokens.  The token "github.com" stands for     *)
(* the literal github.com of the regular expression, "blob" for the        *)
(* literal blob, "/" for the slash, "\n" for a line terminator (the only   *)
(* character the regular expression's `.` refuses); "a" is any other       *)
(* character.                                                              *)
(***************************************************************************)
EXTENDS Naturals, Sequences, FiniteSets, TLC

VARIABLES
    impl,        \* which program text runs: "index.js" or "part_000"
    entry,       \* "main": the CLI run; "watch": waitForEtagChange called directly; "parse": parseGitHubUrl called directly
    pc,          \* position of the running function
    argv,        \* process.argv[2] (main) or the url argument (parse)
    parsed,      \* the outcome of parseGitHubUrl
    initialEtag, \* the baseline the watch session compares against
    interval,    \* TRUE while the setInterval timer is armed
    calls,       \* the arguments of every octokit.request call, in call order
    inflight,    \* the call numbers whose response has not arrived
    returned,    \* the responses observed by the interval callback, in arrival order
    promise,     \* the promise returned by waitForEtagChange
    stdout,      \* console.log lines
    stderr,      \* console.error lines
    exitCode,    \* the argument of process.exit, NoExit while the process runs
    firstResponse, \* the response to main's baseline request, NoResponse before it arrives
    overlapped,  \* TRUE once a timer tick fired while a poll was outstanding
    host         \* what the host reports: "any" response, the "same" tag as at the start, or a "changed" one

vars == <<impl, entry, pc, argv, parsed, initialEtag, interval, calls, inflight,
          returned, promise, stdout, stderr, exitCode, firstResponse, overlapped,
          host>>

\* ------------------------------------------------------------------------
\* Bounds

\* the longest url of the parser specification, in '/'-separated segments
MaxSegs == 7

\* the largest number of octokit.request calls of one run
MaxCalls == 4

\* ------------------------------------------------------------------------
\* Strings

G == "github.com"
B == "blob"
SL == "/"
NL == "\n"

\* JavaScript's undefined, as the one-token string no url or etag equals
Undefined == <<"undefined">>

Impls == {"index.js", "part_000"}

RECURSIVE Join(_)
\* the segments joined by '/'
Join(segs) ==
    IF Len(segs) = 0 THEN <<>>
    ELSE IF Len(segs) = 1 THEN segs[1]
    ELSE segs[1] \o <<SL>> \o Join(Tail(segs))

RECURSIVE RunEnd(_, _, _)
\* the position after the longest run of tokens outside stop that starts at i
RunEnd(s, i, stop) ==
    IF i > Len(s) \/ s[i] \in stop THEN i ELSE RunEnd(s, i + 1, stop)

Slice(s, i, j) == IF j < i THEN <<>> ELSE SubSeq(s, i, j)

At(s, i) == IF i >= 1 /\ i <= Len(s) THEN s[i] ELSE "<end>"

\* ------------------------------------------------------------------------
\* parseGitHubUrl

InvalidUrlMessage ==
    "Invalid GitHub URL. Expected format: https://github.com/owner/repo/blob/branch/path/to/file"

NoMatch == [found |-> FALSE, owner |-> <<>>, repo |-> <<>>, ref |-> <<>>, path |-> <<>>]

\* MatchAt with a regular expression that does not ask for a revision
\* segment: /github\.com\/([^/]+)\/([^/]+)\/blob\/(.+)/
MatchAtNoRevision(s, i) ==
    LET o1 == i + 2
        o2 == RunEnd(s, o1, {SL})
        r1 == o2 + 1
        r2 == RunEnd(s, r1, {SL})
        p1 == r2 + 3
        p2 == RunEnd(s, p1, {NL})
    IN  IF /\ At(s, i) = G /\ At(s, i + 1) = SL
           /\ o2 > o1 /\ At(s, o2) = SL
           /\ r2 > r1 /\ At(s, r2) = SL /\ At(s, r2 + 1) = B /\ At(s, r2 + 2) = SL
           /\ p2 > p1
        THEN [found |-> TRUE,
              owner |-> Slice(s, o1, o2 - 1),
              repo  |-> Slice(s, r1, r2 - 1),
              ref   |-> <<>>,
              path  |-> Slice(s, p1, p2 - 1)]
        ELSE NoMatch

\* /github\.com\/([^/]+)\/([^/]+)\/blob\/([^/]+)\/(.+)/ tried at position i.
\* Each [^/]+ is greedy and is followed by a literal '/', so it takes the
\* whole run of non-slash characters; (.+) is greedy and takes every
\* character up to the end of the string or the first line terminator.
MatchAt(s, i) ==
    LET o1 == i + 2
        o2 == RunEnd(s, o1, {SL})
        r1 == o2 + 1
        r2 == RunEnd(s, r1, {SL})
        v1 == r2 + 3
        v2 == RunEnd(s, v1, {SL})
        p1 == v2 + 1
        p2 == RunEnd(s, p1, {NL})
    IN  IF /\ At(s, i) = G /\ At(s, i + 1) = SL
           /\ o2 > o1 /\ At(s, o2) = SL
           /\ r2 > r1 /\ At(s, r2) = SL /\ At(s, r2 + 1) = B /\ At(s, r2 + 2) = SL
           /\ v2 > v1 /\ At(s, v2) = SL
           /\ p2 > p1
        THEN [found |-> TRUE,
              owner |-> Slice(s, o1, o2 - 1),
              repo  |-> Slice(s, r1, r2 - 1),
              ref   |-> Slice(s, v1, v2 - 1),
              path  |-> Slice(s, p1, p2 - 1)]
        ELSE NoMatch

RECURSIVE MatchFrom(_, _)
\* url.match(regex): the match at the leftmost position that has one
MatchFrom(s, i) ==
    IF i > Len(s) THEN NoMatch
    ELSE IF MatchAt(s, i).found THEN MatchAt(s, i)
    ELSE MatchFrom(s, i + 1)

Threw(msg) ==
    [threw |-> TRUE, message |-> msg, keys |-> {},
     owner |-> Undefined, repo |-> Undefined, ref |-> Undefined, path |-> Undefined]

\* src/unnamed/part_000: four capture groups
parseGitHubUrl(url) ==
    LET match == MatchFrom(url, 1)
    IN  IF ~match.found THEN Threw(InvalidUrlMessage)
        ELSE [threw |-> FALSE, message |-> "", keys |-> {"owner", "repo", "ref", "path"},
              owner |-> match.owner, repo |-> match.repo,
              ref |-> match.ref, path |-> match.path]

\* src/index.js: the revision segment is matched but not captured
parseGitHubUrlIndexJs(url) ==
    LET match == MatchFrom(url, 1)
    IN  IF ~match.found THEN Threw(InvalidUrlMessage)
        ELSE [threw |-> FALSE, message |-> "", keys |-> {"owner", "repo", "path"},
              owner |-> match.owner, repo |-> match.repo,
              ref |-> Undefined, path |-> match.path]

Parse(im, url) == IF im = "index.js" THEN parseGitHubUrlIndexJs(url) ELSE parseGitHubUrl(url)

NotParsed == [threw |-> FALSE, message |-> "not called", keys |-> {},
              owner |-> Undefined, repo |-> Undefined, ref |-> Undefined, path |-> Undefined]

\* ------------------------------------------------------------------------
\* getEtag

WeakMarker == "W/"
Tag1 == "\"abc123\""
Tag2 == "\"xyz789\""

\* the etag header values the host sends: one tag in its weak and in its
\* strong form, and another tag
Headers == {<<WeakMarker, Tag1>>, <<Tag1>>, <<WeakMarker, Tag2>>}

\* the errors octokit.request throws
RequestErrors == {<<"API Error">>, <<"Not Found">>}

TypeErrorMessage == <<"Cannot read properties of undefined (reading 'replace')">>

\* the outcomes of one octokit.request call: a response, whose headers may
\* lack the etag, or an error
Responses ==
    [ok : {TRUE}, etag : Headers \cup {Undefined}, error : {<<>>}]
        \cup [ok : {FALSE}, etag : {Undefined}, error : RequestErrors]

\* the second argument of octokit.request in src/unnamed/part_000
RequestArgs(owner, repo, path, ref) ==
    [route |-> "HEAD /repos/{owner}/{repo}/contents/{path}", method |-> "HEAD",
     keys |-> {"owner", "repo", "path", "ref", "request"},
     owner |-> owner, repo |-> repo, path |-> path, ref |-> ref]

\* the second argument of octokit.request in src/index.js: no ref
RequestArgsIndexJs(owner, repo, path, ref) ==
    [route |-> "HEAD /repos/{owner}/{repo}/contents/{path}", method |-> "HEAD",
     keys |-> {"owner", "repo", "path", "request"},
     owner |-> owner, repo |-> repo, path |-> path, ref |-> Undefined]

Request(im, owner, repo, path, ref) ==
    IF im = "index.js" THEN RequestArgsIndexJs(owner, repo, path, ref)
    ELSE RequestArgs(owner, repo, path, ref)

\* String.prototype.replace(/^W\//, ''): one leading W/ is removed
StripWeak(etag) ==
    IF Len(etag) > 0 /\ etag[1] = WeakMarker THEN Tail(etag) ELSE etag

\* what the await in getEtag of src/unnamed/part_000 yields for a response:
\* the request's error, a TypeError for a response without the etag header
\* (undefined has no replace), the header without its leading W/ otherwise
getEtag(resp) ==
    IF ~resp.ok THEN [threw |-> TRUE, value |-> Undefined, error |-> resp.error]
    ELSE IF resp.etag = Undefined
         THEN [threw |-> TRUE, value |-> Undefined, error |-> TypeErrorMessage]
    ELSE [threw |-> FALSE, value |-> StripWeak(resp.etag), error |-> <<>>]

\* getEtag of src/index.js: the header as received, undefined when absent
getEtagIndexJs(resp) ==
    IF ~resp.ok THEN [threw |-> TRUE, value |-> Undefined, error |-> resp.error]
    ELSE [threw |-> FALSE, value |-> resp.etag, error |-> <<>>]

GetEtag(im, resp) == IF im = "index.js" THEN getEtagIndexJs(resp) ELSE getEtag(resp)

\* ------------------------------------------------------------------------
\* The inputs of a run

\* url of prefix and segments
Url(prefix, segs) == prefix \o Join(segs)

Scheme == <<"a", SL, SL>>

\* process.argv[2] of the CLI runs: absent, empty, a bare repository url, a
\* url on another host, a file url with a branch, one with a nested path
ArgUrls ==
    { Undefined,
      <<>>,
      Url(Scheme, <<<<G>>, <<"a">>, <<"a">>>>),
      Url(Scheme, <<<<"a">>, <<"a">>, <<"a">>, <<B>>, <<"a">>, <<"a">>>>),
      Url(Scheme, <<<<G>>, <<"a">>, <<"a", "a">>, <<B>>, <<"a">>, <<"a">>>>),
      Url(<<>>, <<<<G>>, <<"a">>, <<"a", "a">>, <<B>>, <<"a", "a", "a">>, <<"a">>, <<"a">>>>) }

\* the arguments of a direct call of waitForEtagChange
WatchArgs == [owner |-> <<"owner">>, repo |-> <<"repo">>, path |-> <<"path">>, ref |-> <<"main">>]

\* the baselines a direct call of waitForEtagChange is given
Baselines == {<<WeakMarker, Tag1>>, <<Tag1>>}

NoPromise == [state |-> "none", value |-> <<>>]
Pending == [state |-> "pending", value |-> <<>>]

NoExit == 99

NoResponse == [ok |-> TRUE, etag |-> <<"no response">>, error |-> <<>>]

\* ------------------------------------------------------------------------
\* Initial states

Init ==
    /\ impl \in Impls
    /\ entry \in {"main", "watch"}
    /\ pc = "start"
    /\ argv \in (IF entry = "main" THEN ArgUrls ELSE {Undefined})
    /\ parsed = NotParsed
    /\ initialEtag = Undefined
    /\ interval = FALSE
    /\ calls = <<>>
    /\ inflight = {}
    /\ returned = <<>>
    /\ promise = NoPromise
    /\ stdout = <<>>
    /\ stderr = <<>>
    /\ exitCode = NoExit
    /\ firstResponse = NoResponse
    /\ overlapped = FALSE
    /\ host = "any"

\* ------------------------------------------------------------------------
\* main

\* !url: undefined and the empty string
Falsy(url) == url = Undefined \/ url = <<>>

UsageLines ==
    << <<"Error: GitHub URL is required">>,
       <<"Usage: await-github-file-change <github-url>">>,
       <<"Example: await-github-file-change https://github.com/gr2m/sandbox/blob/main/test-file">> >>

ErrorLine(message) == <<"Error: ">> \o message

\* main without a url: the usage on the error stream, exit 1
MainUsage ==
    /\ entry = "main" /\ pc = "start"
    /\ Falsy(argv)
    /\ stderr' = stderr \o UsageLines
    /\ exitCode' = 1
    /\ pc' = "exited"
    /\ UNCHANGED <<impl, entry, argv, parsed, initialEtag, interval, calls, inflight,
                   returned, promise, stdout, firstResponse, overlapped, host>>

\* main with a url that parseGitHubUrl rejects: the catch block
MainParseError ==
    /\ entry = "main" /\ pc = "start"
    /\ ~Falsy(argv)
    /\ Parse(impl, argv).threw
    /\ parsed' = Parse(impl, argv)
    /\ stderr' = Append(stderr, ErrorLine(<<Parse(impl, argv).message>>))
    /\ exitCode' = 1
    /\ pc' = "exited"
    /\ UNCHANGED <<impl, entry, argv, initialEtag, interval, calls, inflight,
                   returned, promise, stdout, firstResponse, overlapped, host>>

\* main with a url that parses: the Monitoring line, then getEtag issues the
\* baseline request and main waits for it
MainStart ==
    /\ entry = "main" /\ pc = "start"
    /\ ~Falsy(argv)
    /\ ~Parse(impl, argv).threw
    /\ LET p == Parse(impl, argv)
       IN  /\ parsed' = p
           /\ stdout' = Append(stdout, <<"Monitoring">>)
           /\ calls' = Append(calls, Request(impl, p.owner, p.repo, p.path, p.ref))
           /\ inflight' = inflight \cup {Len(calls) + 1}
    /\ pc' = "awaitInitial"
    /\ UNCHANGED <<impl, entry, argv, initialEtag, interval, returned, promise,
                   stderr, exitCode, firstResponse, overlapped, host>>

\* MainInitialError with a catch block that fetches the baseline again
MainInitialErrorRetries(resp) ==
    /\ entry = "main" /\ pc = "awaitInitial"
    /\ GetEtag(impl, resp).threw
    /\ Len(calls) < MaxCalls
    /\ calls' = Append(calls, Request(impl, parsed.owner, parsed.repo, parsed.path, parsed.ref))
    /\ inflight' = {Len(calls) + 1}
    /\ firstResponse' = resp
    /\ UNCHANGED <<impl, entry, pc, argv, parsed, initialEtag, interval, returned,
                   promise, stdout, stderr, exitCode, overlapped, host>>

\* MainInitialError with a catch block that exits without a message
MainInitialErrorSilent(resp) ==
    /\ entry = "main" /\ pc = "awaitInitial"
    /\ GetEtag(impl, resp).threw
    /\ inflight' = {}
    /\ firstResponse' = resp
    /\ exitCode' = 1
    /\ pc' = "exited"
    /\ UNCHANGED <<impl, entry, argv, parsed, initialEtag, interval, calls,
                   returned, promise, stdout, stderr, overlapped, host>>

\* the baseline request fails, or getEtag throws on its response: the catch block
MainInitialError(resp) ==
    /\ entry = "main" /\ pc = "awaitInitial"
    /\ GetEtag(impl, resp).threw
    /\ inflight' = {}
    /\ firstResponse' = resp
    /\ stderr' = Append(stderr, ErrorLine(GetEtag(impl, resp).error))
    /\ exitCode' = 1
    /\ pc' = "exited"
    /\ UNCHANGED <<impl, entry, argv, parsed, initialEtag, interval, calls,
                   returned, promise, stdout, overlapped, host>>

\* getEtag returns the baseline: the Initial etag line, then
\* waitForEtagChange creates the promise and arms the timer
MainInitial(resp) ==
    /\ entry = "main" /\ pc = "awaitInitial"
    /\ ~GetEtag(impl, resp).threw
    /\ inflight' = {}
    /\ firstResponse' = resp
    /\ initialEtag' = GetEtag(impl, resp).value
    /\ stdout' = Append(stdout, <<"Initial etag: ">> \o GetEtag(impl, resp).value)
    /\ promise' = Pending
    /\ interval' = TRUE
    /\ pc' = "awaitWatch"
    /\ UNCHANGED <<impl, entry, argv, parsed, calls, returned, stderr, exitCode, overlapped, host>>

\* the promise of waitForEtagChange has settled and main has not resumed
\* yet: main's continuation is a microtask and runs before any timer or
\* network callback
MainResumes == entry = "main" /\ pc = "awaitWatch" /\ promise.state \in {"resolved", "rejected"}

\* main after waitForEtagChange resolved: the File changed line, exit 0
MainChanged ==
    /\ MainResumes
    /\ promise.state = "resolved"
    /\ stdout' = Append(stdout, <<"File changed! New etag: ">> \o promise.value)
    /\ exitCode' = 0
    /\ pc' = "exited"
    /\ UNCHANGED <<impl, entry, argv, parsed, initialEtag, interval, calls, inflight,
                   returned, promise, stderr, firstResponse, overlapped, host>>

\* MainWatchError with a catch block that exits with code 0
MainWatchErrorExitZero ==
    /\ MainResumes
    /\ promise.state = "rejected"
    /\ stderr' = Append(stderr, ErrorLine(promise.value))
    /\ exitCode' = 0
    /\ pc' = "exited"
    /\ UNCHANGED <<impl, entry, argv, parsed, initialEtag, interval, calls, inflight,
                   returned, promise, stdout, firstResponse, overlapped, host>>

\* main after waitForEtagChange rejected: the catch block
MainWatchError ==
    /\ MainResumes
    /\ promise.state = "rejected"
    /\ stderr' = Append(stderr, ErrorLine(promise.value))
    /\ exitCode' = 1
    /\ pc' = "exited"
    /\ UNCHANGED <<impl, entry, argv, parsed, initialEtag, interval, calls, inflight,
                   returned, promise, stdout, firstResponse, overlapped, host>>

\* ------------------------------------------------------------------------
\* waitForEtagChange

\* waitForEtagChange called directly (as the tests do) with a baseline of
\* the caller's choice: the promise is created and the timer armed
CallWatch(baseline) ==
    /\ entry = "watch" /\ pc = "start"
    /\ parsed' = [NotParsed EXCEPT !.owner = WatchArgs.owner, !.repo = WatchArgs.repo,
                                   !.path = WatchArgs.path, !.ref = WatchArgs.ref]
    /\ initialEtag' = baseline
    /\ promise' = Pending
    /\ interval' = TRUE
    /\ pc' = "awaitWatch"
    /\ UNCHANGED <<impl, entry, argv, calls, inflight, returned, stdout, stderr,
                   exitCode, firstResponse, overlapped, host>>

\* Tick with a callback that issues two requests
TickTwoRequests ==
    /\ pc = "awaitWatch" /\ ~MainResumes
    /\ interval
    /\ Len(calls) + 1 < MaxCalls
    /\ LET args == Request(impl, parsed.owner, parsed.repo, parsed.path, parsed.ref)
       IN  calls' = calls \o <<args, args>>
    /\ inflight' = inflight \cup {Len(calls) + 1, Len(calls) + 2}
    /\ overlapped' = (overlapped \/ inflight # {})
    /\ UNCHANGED <<impl, entry, pc, argv, parsed, initialEtag, interval, returned,
                   promise, stdout, stderr, exitCode, firstResponse, host>>

\* Tick with a timer that gives up after two requests
TickGivesUp ==
    /\ pc = "awaitWatch" /\ ~MainResumes
    /\ interval
    /\ Len(calls) < 2
    /\ calls' = Append(calls, Request(impl, parsed.owner, parsed.repo, parsed.path, parsed.ref))
    /\ inflight' = inflight \cup {Len(calls) + 1}
    /\ overlapped' = (overlapped \/ inflight # {})
    /\ UNCHANGED <<impl, entry, pc, argv, parsed, initialEtag, interval, returned,
                   promise, stdout, stderr, exitCode, firstResponse, host>>

\* the timer fires: the interval callback calls getEtag, which issues a request
Tick ==
    /\ pc = "awaitWatch" /\ ~MainResumes
    /\ interval
    /\ Len(calls) < MaxCalls
    /\ calls' = Append(calls, Request(impl, parsed.owner, parsed.repo, parsed.path, parsed.ref))
    /\ inflight' = inflight \cup {Len(calls) + 1}
    /\ overlapped' = (overlapped \/ inflight # {})
    /\ UNCHANGED <<impl, entry, pc, argv, parsed, initialEtag, interval, returned,
                   promise, stdout, stderr, exitCode, firstResponse, host>>

\* Settle that lets a later resolve or reject replace the settled value
SettleOverwrites(p, state, value) == [state |-> state, value |-> value]

\* resolve(value) and reject(error) settle a pending promise and leave a
\* settled one as it is
Settle(p, state, value) ==
    IF p.state = "pending" THEN [state |-> state, value |-> value] ELSE p

\* Changed with a comparison that never finds a difference
ChangedNever(currentEtag, initial) == FALSE

\* Changed with a comparison that always finds a difference
ChangedAlways(currentEtag, initial) == TRUE

\* currentEtag !== initialEtag
Changed(currentEtag, initial) == currentEtag # initial

\* Callback that does not accept a change on the first poll
CallbackAfterFirstPoll(r, p, armed, initial) ==
    IF r.threw
    THEN [interval |-> FALSE, promise |-> Settle(p, "rejected", r.error)]
    ELSE IF Changed(r.value, initial) /\ Len(returned) > 0
    THEN [interval |-> FALSE, promise |-> Settle(p, "resolved", r.value)]
    ELSE [interval |-> armed, promise |-> p]

\* Callback whose catch block ignores the error and lets the timer retry
CallbackRetriesOnError(r, p, armed, initial) ==
    IF r.threw
    THEN [interval |-> armed, promise |-> p]
    ELSE IF Changed(r.value, initial)
    THEN [interval |-> FALSE, promise |-> Settle(p, "resolved", r.value)]
    ELSE [interval |-> armed, promise |-> p]

\* Callback that resolves without clearing the timer
CallbackKeepsTimer(r, p, armed, initial) ==
    IF r.threw
    THEN [interval |-> FALSE, promise |-> Settle(p, "rejected", r.error)]
    ELSE IF Changed(r.value, initial)
    THEN [interval |-> armed, promise |-> Settle(p, "resolved", r.value)]
    ELSE [interval |-> armed, promise |-> p]

\* the interval callback after its await, given what getEtag yielded (r),
\* the promise (p) and the timer (armed): the catch block clears the timer
\* and rejects, a changed etag clears the timer and resolves, an unchanged
\* etag leaves both alone
Callback(r, p, armed, initial) ==
    IF r.threw
    THEN [interval |-> FALSE, promise |-> Settle(p, "rejected", r.error)]
    ELSE IF Changed(r.value, initial)
    THEN [interval |-> FALSE, promise |-> Settle(p, "resolved", r.value)]
    ELSE [interval |-> armed, promise |-> p]

\* the response of call id arrives and the interval callback resumes;
\* issued records how many requests had been made by then
Poll(id, resp) ==
    /\ pc = "awaitWatch" /\ ~MainResumes
    /\ id \in inflight
    /\ inflight' = inflight \ {id}
    /\ returned' = Append(returned, [resp |-> resp, issued |-> Len(calls)])
    /\ interval' = Callback(GetEtag(impl, resp), promise, interval, initialEtag).interval
    /\ promise' = Callback(GetEtag(impl, resp), promise, interval, initialEtag).promise
    /\ UNCHANGED <<impl, entry, pc, argv, parsed, initialEtag, calls, stdout, stderr,
                   exitCode, firstResponse, overlapped, host>>

Next ==
    \/ MainUsage
    \/ MainParseError
    \/ MainStart
    \/ \E resp \in Responses : MainInitialError(resp)
    \/ \E resp \in Responses : MainInitial(resp)
    \/ MainChanged
    \/ MainWatchError
    \/ \E baseline \in Baselines : CallWatch(baseline)
    \/ Tick
    \/ \E id \in inflight, resp \in Responses : Poll(id, resp)

Spec == Init /\ [][Next]_vars

\* ------------------------------------------------------------------------
\* parseGitHubUrl called directly

\* the segments of the urls of the parser specification: empty, the host,
\* the blob literal, another name, a line terminator
SegKinds == {<<>>, <<G>>, <<B>>, <<"a">>, <<NL>>}

\* what precedes the first segment: nothing, or one more character
Prefixes == {<<>>, <<"a">>}

\* the sequences of at most n segments
SegSeqs(n) == UNION {[1..m -> SegKinds] : m \in 0..n}

InitParse ==
    /\ impl \in Impls
    /\ entry = "parse"
    /\ pc = "start"
    /\ \E prefix \in Prefixes, segs \in SegSeqs(MaxSegs) : argv = Url(prefix, segs)
    /\ parsed = NotParsed
    /\ initialEtag = Undefined
    /\ interval = FALSE
    /\ calls = <<>>
    /\ inflight = {}
    /\ returned = <<>>
    /\ promise = NoPromise
    /\ stdout = <<>>
    /\ stderr = <<>>
    /\ exitCode = NoExit
    /\ firstResponse = NoResponse
    /\ overlapped = FALSE
    /\ host = "any"

\* parseGitHubUrl(url), as the tests call it
CallParse ==
    /\ entry = "parse" /\ pc = "start"
    /\ parsed' = Parse(impl, argv)
    /\ pc' = "done"
    /\ UNCHANGED <<impl, entry, argv, initialEtag, interval, calls, inflight, returned,
                   promise, stdout, stderr, exitCode, firstResponse, overlapped, host>>

NextParse == CallParse

SpecParse == InitParse /\ [][NextParse]_vars

\* ------------------------------------------------------------------------
\* The polls a watch session has observed

Polls == 1..Len(returned)

\* what getEtag yielded to the interval callback for the k-th response that arrived
Outcome(k) == GetEtag(impl, returned[k].resp)

Failed(k) == Outcome(k).threw
Differs(k) == ~Outcome(k).threw /\ Outcome(k).value # initialEtag
Same(k) == ~Outcome(k).threw /\ Outcome(k).value = initialEtag

\* the session was still unsettled when the k-th response arrived
Live(k) == \A j \in 1..(k - 1) : Same(j)

Resolved(value) == [state |-> "resolved", value |-> value]
Rejected(error) == [state |-> "rejected", value |-> error]

\* the requests made by waitForEtagChange: all but main's baseline request
PollCalls == IF entry = "main" /\ Len(calls) > 0 THEN Len(calls) - 1 ELSE Len(calls)

\* ------------------------------------------------------------------------
\* Claims

\* C1: waitForEtagChange resolves on the first poll whose fingerprint
\* differs from the baseline, with that poll's fingerprint, also when that
\* poll is the very first one.  Polls are taken in the order their
\* responses arrive, up to the one that settles the session.
C1_ResolvesOnFirstDifferingPoll ==
    \A k \in Polls : (Live(k) /\ Differs(k)) => promise = Resolved(Outcome(k).value)

\* C1 witness: the very first poll differs and the session has resolved
C1_Witness ==
    /\ Len(returned) = 1 /\ Differs(1)
    /\ promise.state = "resolved"

\* C2: after k polls that returned the baseline and one that differs, the
\* session is resolved with the (k+1)th result; it is never resolved with a
\* value equal to the baseline, nor while every observed poll returned the
\* baseline.
C2_ResolvesOnlyAfterChange ==
    promise.state = "resolved" =>
        /\ promise.value # initialEtag
        /\ \E k \in Polls : /\ \A j \in 1..(k - 1) : Same(j)
                            /\ ~Same(k) /\ ~Failed(k)
                            /\ promise.value = Outcome(k).value

\* C2 witness: two polls returned the baseline, the third differs and resolved
C2_Witness ==
    /\ Len(returned) = 3 /\ Same(1) /\ Same(2) /\ Differs(3)
    /\ promise.state = "resolved"

\* C3: when a poll fails, the session is rejected with the error of that
\* fetch, and no request is made after the failure was observed.
C3_RejectsWithFetchError ==
    \A k \in Polls :
        Failed(k) => /\ Live(k) => promise = Rejected(Outcome(k).error)
                     /\ ~interval
                     /\ Len(calls) = returned[k].issued

\* C3 witness: a poll failed after one that returned the baseline
C3_Witness ==
    /\ Len(returned) = 2 /\ Same(1) /\ Failed(2)
    /\ promise.state = "rejected"

\* C4 as stated: at most one request is outstanding in every reachable state
C4_AtMostOneOutstanding == Cardinality(inflight) <= 1

\* C4 amended: at most one request is outstanding as long as no timer tick
\* fired while a poll was outstanding, that is as long as every response
\* arrived within the timer period.
C4_OneOutstandingUnlessSlow == ~overlapped => Cardinality(inflight) <= 1

\* C4 witness: the second poll is outstanding after the first was observed
C4_Witness ==
    /\ ~overlapped /\ Len(returned) = 1 /\ Cardinality(inflight) = 1
    /\ promise.state = "pending"

\* every poll observed so far differed from the baseline
AlwaysDiffering == Len(returned) > 0 /\ \A k \in Polls : Differs(k)

\* C5 as stated: once a poll returned a differing fingerprint the timer is
\* stopped and no request is made after that observation; if every poll
\* differs, exactly one request is made by the session.
C5_OneRequestWhenDiffering ==
    /\ \A k \in Polls : Differs(k) => ~interval /\ Len(calls) = returned[k].issued
    /\ AlwaysDiffering => PollCalls = 1

\* C5 amended: the timer is stopped and no request is made after the
\* observation; if every poll differs and the first response arrived within
\* the timer period, exactly one request is made by the session.
C5_TimerStoppedOnChange ==
    /\ \A k \in Polls : Differs(k) => ~interval /\ Len(calls) = returned[k].issued
    /\ (AlwaysDiffering /\ ~overlapped) => PollCalls = 1

\* C5 witness: the one poll made differed, the timer is stopped
C5_Witness ==
    /\ Len(returned) = 1 /\ Differs(1) /\ ~overlapped
    /\ ~interval /\ PollCalls = 1

\* C6: a session ends only by a differing fingerprint or by a failed fetch;
\* while every poll returns the baseline the promise stays pending, the
\* timer stays armed and the next poll can be issued.
C6_OnlyTwoOutcomes ==
    promise.state # "none" =>
        /\ promise.state = "resolved" => \E k \in Polls : Differs(k)
        /\ promise.state = "rejected" => \E k \in Polls : Failed(k)
        /\ (\A k \in Polls : Same(k)) =>
              /\ promise.state = "pending"
              /\ interval
              /\ Len(calls) < MaxCalls => ENABLED Tick

\* C6 witness: three polls returned the baseline and the session goes on
C6_Witness ==
    /\ entry = "watch" /\ Len(returned) = 3 /\ \A k \in Polls : Same(k)
    /\ promise.state = "pending" /\ interval

\* the response to the baseline request made getEtag throw
BaselineFailed == firstResponse # NoResponse /\ GetEtag(impl, firstResponse).threw

\* C7: exit code 0 only after the url parsed, the one baseline fetch
\* succeeded and the session resolved with a changed fingerprint; the
\* initial fingerprint is printed before the new one, both before the exit.
C7_ExitZeroOnlyAfterChange ==
    exitCode = 0 =>
        /\ entry = "main" /\ pc = "exited"
        /\ ~Falsy(argv) /\ ~parsed.threw /\ parsed.keys # {}
        /\ firstResponse # NoResponse /\ ~BaselineFailed
        /\ initialEtag = GetEtag(impl, firstResponse).value
        /\ Len(calls) = 1 + Len(returned) + Cardinality(inflight)
        /\ promise.state = "resolved" /\ promise.value # initialEtag
        /\ stdout = << <<"Monitoring">>,
                       <<"Initial etag: ">> \o initialEtag,
                       <<"File changed! New etag: ">> \o promise.value >>
        /\ stderr = <<>>

\* C7 witness: the run ended with exit code 0 after a poll that differed
C7_Witness ==
    /\ exitCode = 0 /\ Len(returned) = 2 /\ Same(1) /\ Differs(2)

\* C8: a missing url, a parse failure, a failed baseline fetch and a failed
\* poll end the process with exit code 1 and a message on the error stream,
\* never with exit code 0.
C8_ErrorsExitOne ==
    entry = "main" =>
        /\ (Falsy(argv) /\ pc # "start") =>
              /\ pc = "exited" /\ exitCode = 1 /\ stderr = UsageLines
        /\ parsed.threw =>
              /\ pc = "exited" /\ exitCode = 1
              /\ stderr = << ErrorLine(<<InvalidUrlMessage>>) >>
        /\ BaselineFailed =>
              /\ pc = "exited" /\ exitCode = 1
              /\ stderr = << ErrorLine(GetEtag(impl, firstResponse).error) >>
        /\ (\E k \in Polls : Failed(k)) =>
              /\ exitCode # 0
              /\ pc = "exited" \/ MainResumes
              /\ pc = "exited" =>
                    /\ exitCode = 1
                    /\ \E k \in Polls : Failed(k) /\ stderr = << ErrorLine(Outcome(k).error) >>

\* C8 witness: the run ended with exit code 1 after a failed poll
C8_Witness ==
    /\ entry = "main" /\ pc = "exited" /\ exitCode = 1
    /\ Len(returned) = 2 /\ Same(1) /\ Failed(2)

\* ------------------------------------------------------------------------
\* The shape of a file url, stated on its '/'-separated segments

RECURSIVE Split(_)
\* the segments of s between its slashes
Split(s) ==
    IF \A i \in 1..Len(s) : s[i] # SL THEN <<s>>
    ELSE LET i == CHOOSE n \in 1..Len(s) : s[n] = SL /\ \A m \in 1..(n - 1) : s[m] # SL
         IN  <<Slice(s, 1, i - 1)>> \o Split(Slice(s, i + 1, Len(s)))

EndsWithHost(seg) == Len(seg) > 0 /\ seg[Len(seg)] = G

\* segment h of segs ends with github.com and is followed by an owner, a
\* repository, the blob segment, a revision and a path
ShapeAt(segs, h) ==
    /\ h + 5 <= Len(segs)
    /\ EndsWithHost(segs[h])
    /\ segs[h + 1] # <<>>
    /\ segs[h + 2] # <<>>
    /\ segs[h + 3] = <<B>>
    /\ segs[h + 4] # <<>>
    /\ Join(SubSeq(segs, h + 5, Len(segs))) # <<>>

HasShape(url) ==
    LET segs == Split(url)
    IN  \E h \in 1..Len(segs) : ShapeAt(segs, h)

\* <host>/<owner>/<repo>/blob/<rev>/<path>: the host is the first segment
\* that mentions github.com, and the shape starts there
WellFormed(url) ==
    LET segs == Split(url)
    IN  \E h \in 1..Len(segs) :
            /\ ShapeAt(segs, h)
            /\ \A g \in 1..(h - 1) : \A i \in 1..Len(segs[g]) : segs[g][i] # G
            /\ \A i \in 1..(Len(segs[h]) - 1) : segs[h][i] # G

\* the reference a well-formed url names
Reference(url) ==
    LET segs == Split(url)
        h == CHOOSE n \in 1..Len(segs) : ShapeAt(segs, n) /\ \A g \in 1..(n - 1) : ~ShapeAt(segs, g)
    IN  [threw |-> FALSE, message |-> "", keys |-> {"owner", "repo", "ref", "path"},
         owner |-> segs[h + 1], repo |-> segs[h + 2], ref |-> segs[h + 4],
         path |-> Join(SubSeq(segs, h + 5, Len(segs)))]

\* C9: for every well-formed url parseGitHubUrl returns exactly owner,
\* repo, ref and path, the path being everything after the revision segment.
C9_ParsesWellFormedUrl ==
    (entry = "parse" /\ pc = "done" /\ WellFormed(argv)) => parsed = Reference(argv)

\* C10: for every url without the shape github.com/<owner>/<repo>/blob/<rev>/<path>
\* parseGitHubUrl throws the error with the one fixed message and returns nothing.
C10_RejectsOtherUrls ==
    (entry = "parse" /\ pc = "done" /\ ~HasShape(argv)) =>
        /\ parsed.threw
        /\ parsed.message = InvalidUrlMessage
        /\ parsed.keys = {}

\* C10 witness: a bare repository url was rejected
C10_Witness ==
    /\ entry = "parse" /\ pc = "done"
    /\ argv = Url(<<"a">>, << <<G>>, <<"a">>, <<"a">> >>)
    /\ parsed.threw

\* ------------------------------------------------------------------------
\* getEtag called directly

\* the owner, repo, path and ref arguments of a direct call of getEtag: a
\* branch name or a commit SHA as ref, a file at the top or in a folder
EtagArgs ==
    {[NotParsed EXCEPT !.owner = <<"owner">>, !.repo = repo, !.path = path, !.ref = ref] :
        repo \in {<<"repo">>, <<"sandbox">>},
        path \in {<<"file.txt">>, <<"path", SL, "to", SL, "file">>},
        ref \in {<<"main">>, <<"develop">>, <<"abc123def456">>}}

InitEtag ==
    /\ impl \in Impls
    /\ entry = "getEtag"
    /\ pc = "start"
    /\ argv = Undefined
    /\ parsed \in EtagArgs
    /\ initialEtag = Undefined
    /\ interval = FALSE
    /\ calls = <<>>
    /\ inflight = {}
    /\ returned = <<>>
    /\ promise = NoPromise
    /\ stdout = <<>>
    /\ stderr = <<>>
    /\ exitCode = NoExit
    /\ firstResponse = NoResponse
    /\ overlapped = FALSE
    /\ host = "any"

\* getEtag(octokit, owner, repo, path, ref), as the tests call it: the
\* request is issued and the async function hands out its promise
CallGetEtag ==
    /\ entry = "getEtag" /\ pc = "start"
    /\ calls' = Append(calls, Request(impl, parsed.owner, parsed.repo, parsed.path, parsed.ref))
    /\ inflight' = inflight \cup {Len(calls) + 1}
    /\ promise' = Pending
    /\ pc' = "awaitRequest"
    /\ UNCHANGED <<impl, entry, argv, parsed, initialEtag, interval, returned, stdout,
                   stderr, exitCode, firstResponse, overlapped, host>>

\* the request settles: getEtag's promise resolves with what the return
\* statement yields, or rejects with what was thrown
GetEtagReturns(resp) ==
    /\ entry = "getEtag" /\ pc = "awaitRequest"
    /\ inflight' = {}
    /\ firstResponse' = resp
    /\ promise' = IF GetEtag(impl, resp).threw
                  THEN Settle(promise, "rejected", GetEtag(impl, resp).error)
                  ELSE Settle(promise, "resolved", GetEtag(impl, resp).value)
    /\ pc' = "done"
    /\ UNCHANGED <<impl, entry, argv, parsed, initialEtag, interval, calls, returned,
                   stdout, stderr, exitCode, overlapped, host>>

NextEtag ==
    \/ CallGetEtag
    \/ \E resp \in Responses : GetEtagReturns(resp)

SpecEtag == InitEtag /\ [][NextEtag]_vars

\* the header of a response without a weak-validator marker in front
WithoutWeakMarker(header) ==
    IF Len(header) > 0 /\ header[1] = WeakMarker THEN SubSeq(header, 2, Len(header)) ELSE header

\* getEtag has returned for a response that carries an etag header
GotHeader == entry = "getEtag" /\ pc = "done" /\ firstResponse.ok /\ firstResponse.etag \in Headers

\* C11: getEtag returns the etag header with a leading weak-validator
\* marker stripped: W/"abc123" yields the tag without the marker, "abc123"
\* without a marker is returned unchanged.
C11_ReturnsNormalizedEtag ==
    GotHeader =>
        /\ promise = Resolved(WithoutWeakMarker(firstResponse.etag))
        /\ firstResponse.etag = <<WeakMarker, Tag1>> => promise.value = <<Tag1>>
        /\ firstResponse.etag = <<Tag1>> => promise.value = <<Tag1>>

\* C12: getEtag issues exactly one HEAD request per invocation and returns
\* the etag header as received, weak-marked or not.
C12_ReturnsEtagAsReceived ==
    (entry = "getEtag" /\ pc = "done") =>
        /\ Len(calls) = 1
        /\ calls[1].method = "HEAD"
        /\ GotHeader => promise = Resolved(firstResponse.etag)

\* the file a run watches: named by the url of a CLI run, given as
\* arguments to a direct call of waitForEtagChange
Target == IF entry = "main" THEN Reference(argv) ELSE WatchArgs

\* C13: every request of a run, the baseline request and each poll, is
\* made for the same owner, repository and path and carries the ref taken
\* from the url.
C13_EveryFetchPinnedToRef ==
    \A i \in 1..Len(calls) :
        /\ calls[i].owner = Target.owner
        /\ calls[i].repo = Target.repo
        /\ calls[i].path = Target.path
        /\ "ref" \in calls[i].keys
        /\ calls[i].ref = Target.ref

\* the tag of an etag header, without regard to the weak-validator marker
Digest(header) == header[Len(header)]

\* the response carries an etag header with the tag of the baseline response
SameDigest(resp) ==
    /\ resp.ok /\ resp.etag \in Headers
    /\ Digest(resp.etag) = Digest(firstResponse.etag)

\* C14: in a run whose baseline was fetched by getEtag, the session does
\* not resolve while every response carries the tag of the baseline, in its
\* weak-marked or in its unmarked form.
C14_WeakAndStrongCompareEqual ==
    (/\ entry = "main" /\ firstResponse.ok /\ firstResponse.etag \in Headers
     /\ \A k \in Polls : SameDigest(returned[k].resp))
        => promise.state # "resolved"

\* the session has settled
Settled == promise.state \in {"resolved", "rejected"}

\* C15: with polls in flight at the same time the session settles at most
\* once: once the promise is resolved or rejected no later response changes
\* its value or turns a resolution into a rejection or back.
C15_SettlesAtMostOnce == [][Settled => promise' = promise]_vars

\* C15 witness: two polls overlapped, the first response to arrive differed
\* and resolved the session, and a failed response that arrived after it
\* left the resolution as it was
C15_Witness ==
    /\ overlapped /\ Len(returned) >= 2
    /\ Differs(1) /\ Failed(2)
    /\ promise = Resolved(Outcome(1).value)

\* a response of the host whose headers lack the etag
MissingHeader(resp) == resp.ok /\ resp.etag = Undefined

\* C16: a response without the etag header is a fetch failure: getEtag
\* throws on it, for the baseline and for every poll, and the session never
\* resolves with undefined.
C16_MissingHeaderIsFailure ==
    /\ (firstResponse # NoResponse /\ MissingHeader(firstResponse)) => BaselineFailed
    /\ \A k \in Polls : MissingHeader(returned[k].resp) => Failed(k)
    /\ promise.state = "resolved" => promise.value # Undefined

\* C17: errors abort the run where they occur and are not retried: after
\* parseGitHubUrl threw no request is ever made, and after the baseline
\* fetch failed the baseline request stays the only one, no watch session
\* exists and no poll was made; the run has ended in both cases.
C17_ErrorsAbortWithoutRetry ==
    /\ (entry = "main" /\ parsed.threw) =>
           /\ calls = <<>> /\ inflight = {}
           /\ promise = NoPromise /\ ~interval
           /\ pc = "exited"
    /\ (entry = "main" /\ BaselineFailed) =>
           /\ Len(calls) = 1 /\ inflight = {}
           /\ promise = NoPromise /\ ~interval /\ returned = <<>>
           /\ pc = "exited"

\* C17 witness: the baseline request of a CLI run failed and the run ended
\* with that one request and without a session
C17_Witness ==
    /\ entry = "main" /\ BaselineFailed /\ ~firstResponse.ok
    /\ pc = "exited" /\ Len(calls) = 1 /\ promise = NoPromise

\* ------------------------------------------------------------------------
\* A watched file that changes: the timer keeps firing, every request
\* returns a response with an etag, and at some point the file changes

\* the responses of the host: the file's first tag in its weak or strong
\* form until the file changes, another tag from then on
HostResponses ==
    IF host = "same"
    THEN [ok : {TRUE}, etag : {<<WeakMarker, Tag1>>, <<Tag1>>}, error : {<<>>}]
    ELSE [ok : {TRUE}, etag : {<<WeakMarker, Tag2>>}, error : {<<>>}]

InitLive ==
    /\ impl \in Impls
    /\ entry \in {"main", "watch"}
    /\ pc = "start"
    /\ argv \in (IF entry = "main"
                 THEN {u \in ArgUrls : ~Falsy(u) /\ ~Parse(impl, u).threw}
                 ELSE {Undefined})
    /\ parsed = NotParsed
    /\ initialEtag = Undefined
    /\ interval = FALSE
    /\ calls = <<>>
    /\ inflight = {}
    /\ returned = <<>>
    /\ promise = NoPromise
    /\ stdout = <<>>
    /\ stderr = <<>>
    /\ exitCode = NoExit
    /\ firstResponse = NoResponse
    /\ overlapped = FALSE
    /\ host = "same"

\* the watched file changes while the session is polling, with a response
\* still to come or a request still to be made
HostChanges ==
    /\ host = "same"
    /\ pc = "awaitWatch" /\ promise.state = "pending"
    /\ Len(calls) < MaxCalls \/ inflight # {}
    /\ host' = "changed"
    /\ UNCHANGED <<impl, entry, pc, argv, parsed, initialEtag, interval, calls, inflight,
                   returned, promise, stdout, stderr, exitCode, firstResponse, overlapped>>

MainInitialLive == \E resp \in HostResponses : MainInitial(resp)
CallWatchLive == \E baseline \in Baselines : CallWatch(baseline)
PollLive == \E id \in inflight, resp \in HostResponses : Poll(id, resp)

NextLive ==
    \/ MainStart
    \/ MainInitialLive
    \/ MainChanged
    \/ CallWatchLive
    \/ Tick
    \/ PollLive
    \/ HostChanges

\* the event loop runs every callback that is ready: the timer fires while
\* it is armed, a response that arrives resumes its callback, and main
\* resumes when the promise it awaits settles
SpecLive ==
    /\ InitLive /\ [][NextLive]_vars
    /\ WF_vars(MainStart) /\ WF_vars(MainInitialLive) /\ WF_vars(MainChanged)
    /\ WF_vars(CallWatchLive) /\ WF_vars(Tick) /\ WF_vars(PollLive)

\* the session resolved and, in a CLI run, the process exited with code 0
ResolvedAndExited ==
    /\ promise.state = "resolved"
    /\ entry = "main" => (pc = "exited" /\ exitCode = 0)

\* C18: if the timer keeps firing, every request returns and none fails,
\* then once the host reports a tag that differs from the baseline the
\* session eventually resolves, and a CLI run eventually exits with code 0.
C18_EventuallyResolves == (host = "changed") ~> ResolvedAndExited

\* C18 witness: a CLI run polled the unchanged file, the file changed, the
\* session resolved with the new tag and the process exited with code 0
C18_Witness ==
    /\ entry = "main" /\ host = "changed"
    /\ Len(returned) >= 2 /\ Same(1)
    /\ promise.state = "resolved" /\ Digest(promise.value) = Tag2
    /\ pc = "exited" /\ exitCode = 0

====
